---------------------------- MODULE Spec2Model ----------------------------
(***************************************************************************)
(* Model of submit_speed_and_send_official_autorun_v2.py (and, where a     *)
(* claim names them, of its sibling scripts): the measurement provider     *)
(* (measure_speed_python, measure_speed_cli, measure_speed), the           *)
(* submission engine (build_payload_base, try_submit_with_mapping,         *)
(* submit_official), one run (run_once) and the daily scheduler            *)
(* (loop_scheduler).                                                       *)
(*                                                                         *)
(* Time is the wall clock read by datetime.now(), counted in ticks of      *)
(* TickMinutes minutes since midnight of day 0.  Every instant the         *)
(* scheduler compares the clock with (a slot's instant, midnight) is a     *)
(* whole number of ticks, so `now >= instant` and `now < instant` have the *)
(* same value on the real clock and on its tick.                           *)
(***************************************************************************)
EXTENDS Integers, Sequences, FiniteSets, TLC

\* Python's None, for the integer-valued results (status code, list index,
\* date, a number dict.get() did not find).
None == -1

(***************************************************************************)
(* Configuration (module-level constants of the script)                    *)
(***************************************************************************)
SCHEDULES ==
  << [label |-> "07:00", h |-> 7,  m |-> 0],
     [label |-> "13:30", h |-> 13, m |-> 30] >>

\* The Arabic values of the script, transliterated (strings here are ASCII).
ALLOWED_SECTORS ==
  {"Muscat", "Qurayyat", "Seeb", "Amerat", "Bawshar", "Muttrah"}
ALLOWED_PROVIDERS == {"Omantel", "Ooredoo", "Awasr"}
ALLOWED_SERVICE_TYPES == {"Fiber", "5 G"}

SCHOOL_CODE == "1561"
SCHOOL_NAME == "SCHOOL_NAME"
LINE_NUMBER == "24424428"

ENTRY_SECTOR_ID == "entry.1313908626"
ENTRY_PROVIDER_ID == "entry.927675658"
ENTRY_SERVICE_TYPE_ID == "entry.66731299"

ENTRY_TEXT_IDS ==
  [Q1_school_code |-> "entry.899161738",
   X_A |-> "entry.560537791",
   X_B |-> "entry.1862560773",
   X_C |-> "entry.181224386",
   X_D |-> "entry.556952249"]

\* (Variant: the second mapping puts the speed and the notes under X_C.)
TEXT_MAPPING_TRIES_shared_id ==
  << [Q3_school_name |-> "X_A", Q5_line_number |-> "X_B",
      Q7_internet_speed |-> "X_C", Q8_notes |-> "X_D"],
     [Q3_school_name |-> "X_A", Q5_line_number |-> "X_B",
      Q7_internet_speed |-> "X_C", Q8_notes |-> "X_C"],
     [Q3_school_name |-> "X_B", Q5_line_number |-> "X_A",
      Q7_internet_speed |-> "X_C", Q8_notes |-> "X_D"] >>

TEXT_MAPPING_TRIES ==
  << [Q3_school_name |-> "X_A", Q5_line_number |-> "X_B",
      Q7_internet_speed |-> "X_C", Q8_notes |-> "X_D"],
     [Q3_school_name |-> "X_A", Q5_line_number |-> "X_B",
      Q7_internet_speed |-> "X_D", Q8_notes |-> "X_C"],
     [Q3_school_name |-> "X_B", Q5_line_number |-> "X_A",
      Q7_internet_speed |-> "X_C", Q8_notes |-> "X_D"] >>

\* Each hidden set is a dict, written as its set of <<key, value>> items.
HIDDEN_CANDIDATES ==
  << {}, {<<"fbzx", "8122308104194036559">>} >>

HIDDEN_ALWAYS == {<<"fvv", "1">>, <<"pageHistory", "0">>}

\* The statuses `r.status_code in (200, 302)` accepts.
\* (Variant: a redirect is not taken for an acceptance.)
AcceptedStatuses_only_200 == {200}
AcceptedStatuses == {200, 302}

(***************************************************************************)
(* Submission engine                                                       *)
(***************************************************************************)
\* What the endpoint does with one POST: it answers with a status code, or
\* requests.post raises (connection error, timeout).
StatusCodes == {200, 302, 404}
Responses ==
  {[exc |-> FALSE, status |-> s] : s \in StatusCodes}
    \cup {[exc |-> TRUE, status |-> None]}

\* A combination is <<index into TEXT_MAPPING_TRIES, index into HIDDEN_CANDIDATES>>.
Combos == (1..Len(TEXT_MAPPING_TRIES)) \X (1..Len(HIDDEN_CANDIDATES))

\* Site identities the configuration may hold (the enum-constrained fields).
Identities ==
  [sector : {"Seeb", "Salalah"}, provider : {"Omantel", "Vodafone"},
   service_type : {"Fiber", "ADSL"}]

\* build_payload_base: the three membership tests that raise ValueError.
build_payload_base_raises(id) ==
  \/ id.sector \notin ALLOWED_SECTORS
  \/ id.provider \notin ALLOWED_PROVIDERS
  \/ id.service_type \notin ALLOWED_SERVICE_TYPES

\* A dict is a function from its keys; d.update(e) is Updated(d, e), and a
\* dict written as its set of items is Dict(items).
Updated(d, e) ==
  [k \in DOMAIN d \cup DOMAIN e |-> IF k \in DOMAIN e THEN e[k] ELSE d[k]]
Dict(items) ==
  [k \in {it[1] : it \in items} |-> (CHOOSE it \in items : it[1] = k)[2]]

\* f"{results['download']} Mbps", download in hundredths of a Mbps.
speed_text(download) ==
  CASE download = 0 -> "0.0 Mbps"
    [] download = 4520 -> "45.2 Mbps"
    [] download = 10000 -> "100.0 Mbps"
    [] OTHER -> "n Mbps"

\* build_payload_base: the dict `base` (the notes text is one string).
build_payload_base(id) ==
  Dict({ <<ENTRY_TEXT_IDS.Q1_school_code, SCHOOL_CODE>>,
         <<ENTRY_SECTOR_ID, id.sector>>,
         <<ENTRY_PROVIDER_ID, id.provider>>,
         <<ENTRY_SERVICE_TYPE_ID, id.service_type>> })

\* try_submit_with_mapping: the payload it POSTs, built by assignments in
\* the order of the code, a later one replacing an earlier one under the
\* same key.
payload(id, mi, hi, download) ==
  LET mapping == TEXT_MAPPING_TRIES[mi]
      p0 == build_payload_base(id)
      p1 == Updated(p0, Dict({<<ENTRY_TEXT_IDS[mapping.Q3_school_name],
                                SCHOOL_NAME>>}))
      p2 == Updated(p1, Dict({<<ENTRY_TEXT_IDS[mapping.Q5_line_number],
                                LINE_NUMBER>>}))
      p3 == Updated(p2, Dict({<<ENTRY_TEXT_IDS[mapping.Q7_internet_speed],
                                speed_text(download)>>}))
      p4 == Updated(p3, Dict({<<ENTRY_TEXT_IDS[mapping.Q8_notes], "notes_text">>}))
      p5 == Updated(p4, Dict(HIDDEN_ALWAYS))
  IN  Updated(p5, Dict(HIDDEN_CANDIDATES[hi]))

\* (Variant: the identity is validated only after the POST.)
try_submit_with_mapping_validates_late(id, mi, hi, ep) ==
  LET r == ep[<<mi, hi>>] IN
  IF r.exc
  THEN [raised |-> "RequestException", posted |-> TRUE, ok |-> FALSE,
        code |-> None]
  ELSE IF build_payload_base_raises(id)
  THEN [raised |-> "ValueError", posted |-> TRUE, ok |-> FALSE, code |-> None]
  ELSE [raised |-> "none", posted |-> TRUE,
        ok |-> (r.status \in AcceptedStatuses), code |-> r.status]

\* try_submit_with_mapping(mapping, hidden_extra, ...): validates, builds the
\* payload, POSTs once.  `posted` says whether requests.post was called.
try_submit_with_mapping(id, mi, hi, ep) ==
  IF build_payload_base_raises(id)
  THEN [raised |-> "ValueError", posted |-> FALSE, ok |-> FALSE, code |-> None]
  ELSE LET r == ep[<<mi, hi>>] IN
       IF r.exc
       THEN [raised |-> "RequestException", posted |-> TRUE, ok |-> FALSE,
             code |-> None]
       ELSE [raised |-> "none", posted |-> TRUE,
             ok |-> (r.status \in AcceptedStatuses), code |-> r.status]

\* (Variant: the two loops swapped, hidden sets outer.)
RankedCombos_hidden_outer ==
  [k \in 1..(Len(TEXT_MAPPING_TRIES) * Len(HIDDEN_CANDIDATES)) |->
     << ((k - 1) % Len(TEXT_MAPPING_TRIES)) + 1,
        ((k - 1) \div Len(TEXT_MAPPING_TRIES)) + 1 >>]

\* The order in which the nested loops of submit_official visit the
\* combinations: `for mapping in TEXT_MAPPING_TRIES: for hidden in
\* HIDDEN_CANDIDATES`.
RankedCombos ==
  [k \in 1..(Len(TEXT_MAPPING_TRIES) * Len(HIDDEN_CANDIDATES)) |->
     << ((k - 1) \div Len(HIDDEN_CANDIDATES)) + 1,
        ((k - 1) % Len(HIDDEN_CANDIDATES)) + 1 >>]

\* submit_official from its k-th iteration on; posts are the POSTs issued so
\* far, last_code is last_status[1].
RECURSIVE submit_official_from(_, _, _, _, _)
submit_official_from(id, ep, k, posts, last_code) ==
  IF k > Len(RankedCombos)
  THEN [raised |-> "none", ok |-> FALSE, code |-> last_code,
        used_mapping |-> None, used_hidden |-> None, posts |-> posts]
  ELSE LET c == RankedCombos[k]
           t == try_submit_with_mapping(id, c[1], c[2], ep)
           p == IF t.posted THEN Append(posts, c) ELSE posts
       IN  IF t.raised # "none"
           THEN [raised |-> t.raised, ok |-> FALSE, code |-> None,
                 used_mapping |-> None, used_hidden |-> None, posts |-> p]
           ELSE IF t.ok
           THEN [raised |-> "none", ok |-> TRUE, code |-> t.code,
                 used_mapping |-> c[1], used_hidden |-> c[2], posts |-> p]
           ELSE submit_official_from(id, ep, k + 1, p, t.code)

\* submit_official(results, ts)
submit_official(id, ep) == submit_official_from(id, ep, 1, <<>>, None)

\* The answers to the first n POSTs of a call, in the order they are made.
AttemptResponses(ep, n) == [k \in 1..n |-> ep[RankedCombos[k]]]

\* submit_form(payload) of submit_speed_and_send_autorun.py from its k-th
\* variant on: each POST is inside try/except Exception.
variants == 2
RECURSIVE submit_form_from(_, _, _)
submit_form_from(rs, k, last_code) ==
  IF k > variants
  THEN [raised |-> "none", ok |-> FALSE, code |-> last_code, attempts |-> k - 1,
        sleeps |-> <<>>]
  ELSE IF rs[k].exc
  THEN submit_form_from(rs, k + 1, last_code)
  ELSE IF rs[k].status \in {200, 302}
  THEN [raised |-> "none", ok |-> TRUE, code |-> rs[k].status, attempts |-> k,
        sleeps |-> <<>>]
  ELSE submit_form_from(rs, k + 1, rs[k].status)

submit_form(rs) == submit_form_from(rs, 1, None)

\* submit_to_form(payload, retries=3, backoff_sec=2.0) of
\* submit_speed_to_form.py from attempt k on: True on status 200 only; any
\* other status and requests.RequestException lead to time.sleep(backoff_sec
\* * attempt) and the next attempt.
retries == 3
backoff_sec == 2
RECURSIVE submit_to_form_from(_, _, _, _, _)
submit_to_form_from(rs, n, b, k, sleeps) ==
  IF k > n
  THEN [raised |-> "none", ok |-> FALSE, code |-> None, attempts |-> k - 1,
        sleeps |-> sleeps]
  ELSE IF ~rs[k].exc /\ rs[k].status = 200
  THEN [raised |-> "none", ok |-> TRUE, code |-> None, attempts |-> k,
        sleeps |-> sleeps]
  ELSE submit_to_form_from(rs, n, b, k + 1, Append(sleeps, b * k))

\* submit_to_form(payload, retries=n, backoff_sec=b)
submit_to_form(rs, n, b) == submit_to_form_from(rs, n, b, 1, <<>>)

(***************************************************************************)
(* Measurement provider                                                    *)
(***************************************************************************)
max_attempts == 3
backoff == 20
other_error_wait == 5

\* round(n / d, 2 decimals) on integers, ties to even as Python's round():
\* the nearest integer to n / d.
RoundDiv(n, d) ==
  LET q == n \div d
      r == n % d
  IN  IF 2 * r < d THEN q
      ELSE IF 2 * r > d THEN q + 1
      ELSE IF q % 2 = 0 THEN q ELSE q + 1

\* Speeds are kept in hundredths of a Mbps, pings in hundredths of a ms:
\* round(x / 1_000_000, 2) of x bit/s is RoundDiv(x, 10000) hundredths.
bps_to_mbps(bps) == RoundDiv(bps, 10000)
round_ping(thousandths) == RoundDiv(thousandths, 10)

\* One attempt of the in-process probe: it succeeds with raw readings
\* (bit/s, ms in thousandths), or raises an exception whose text holds
\* "403"/"ConfigRetrievalError" (transient), or raises any other exception.
AttemptOutcomes ==
  { [kind |-> "ok", download |-> 45204999, upload |-> 10100000, ping |-> 18437],
    [kind |-> "transient", download |-> 0, upload |-> 0, ping |-> 0],
    [kind |-> "other", download |-> 0, upload |-> 0, ping |-> 0] }

NoResults == [download |-> None, upload |-> None, ping |-> None]

\* (Variant: the wait after a transient failure does not grow with the
\* attempt number.)
RECURSIVE measure_speed_python_from_flat_backoff(_, _, _, _)
measure_speed_python_from_flat_backoff(att, k, sleeps, last_err) ==
  IF k > max_attempts
  THEN [raised |-> "Exception", err |-> last_err, attempts |-> k - 1,
        sleeps |-> sleeps, results |-> NoResults]
  ELSE IF att[k].kind = "ok"
  THEN [raised |-> "none", err |-> last_err, attempts |-> k, sleeps |-> sleeps,
        results |-> [download |-> bps_to_mbps(att[k].download),
                     upload |-> bps_to_mbps(att[k].upload),
                     ping |-> round_ping(att[k].ping)]]
  ELSE measure_speed_python_from_flat_backoff(att, k + 1,
         Append(sleeps, IF att[k].kind = "transient" THEN backoff
                        ELSE other_error_wait),
         att[k].kind)

\* measure_speed_python from attempt k on; sleeps are the time.sleep() calls
\* of the except branch so far, last_err the kind of the last exception.
RECURSIVE measure_speed_python_from(_, _, _, _)
measure_speed_python_from(att, k, sleeps, last_err) ==
  IF k > max_attempts
  THEN [raised |-> "Exception", err |-> last_err, attempts |-> k - 1,
        sleeps |-> sleeps, results |-> NoResults]
  ELSE IF att[k].kind = "ok"
  THEN [raised |-> "none", err |-> last_err, attempts |-> k, sleeps |-> sleeps,
        results |-> [download |-> bps_to_mbps(att[k].download),
                     upload |-> bps_to_mbps(att[k].upload),
                     ping |-> round_ping(att[k].ping)]]
  ELSE measure_speed_python_from(att, k + 1,
         Append(sleeps, IF att[k].kind = "transient" THEN backoff * k
                        ELSE other_error_wait),
         att[k].kind)

\* (Variant: no retry, the first failed attempt is raised.)
measure_speed_python_single_attempt(module, att) ==
  IF ~module
  THEN [raised |-> "SystemExit", err |-> "ImportError", attempts |-> 0,
        sleeps |-> <<>>, results |-> NoResults]
  ELSE IF att[1].kind = "ok"
  THEN measure_speed_python_from(att, 1, <<>>, "none")
  ELSE [raised |-> "Exception", err |-> att[1].kind, attempts |-> 1,
        sleeps |-> <<>>, results |-> NoResults]

\* measure_speed_python(): `import speedtest` fails with SystemExit, which
\* is no Exception; otherwise the attempt loop.
measure_speed_python(module, att) ==
  IF ~module
  THEN [raised |-> "SystemExit", err |-> "ImportError", attempts |-> 0,
        sleeps |-> <<>>, results |-> NoResults]
  ELSE measure_speed_python_from(att, 1, <<>>, "none")

\* The binaries measure_speed_cli tries, in order.
candidates == << "speedtest", "speedtest.exe" >>

\* What running one candidate gives: subprocess.run raises
\* (FileNotFoundError, or another exception such as TimeoutExpired), or it
\* returns with a return code and a stdout that is empty, not JSON, a JSON
\* object of the speedtest-cli shape (flat), of the Ookla shape (nested,
\* type = "result") or of neither.  download/upload are bit/s (flat) or
\* byte/s (nested), ping is in thousandths of a ms; None = key absent.
CliValues == {None, 0, 12500000}
CliPings == {None, 0, 18437}
CliOutcomes ==
  { [kind |-> k, download |-> None, upload |-> None, ping |-> None] :
      k \in {"FileNotFoundError", "TimeoutExpired", "exit_nonzero",
             "empty_stdout", "not_json", "other_json"} }
  \cup { [kind |-> "flat", download |-> 100000000, upload |-> 100000000,
          ping |-> 18437] }
  \cup [kind : {"nested"}, download : CliValues, upload : CliValues,
        ping : CliPings]

\* Python truthiness of a number read from JSON (None and 0 are falsy).
Truthy(v) == v # None /\ v # 0

\* The body of the for loop of measure_speed_cli for one candidate: TRUE
\* when it reaches one of the two return statements.
cli_returns(o) ==
  \/ o.kind = "flat"
  \/ /\ o.kind = "nested"
     /\ Truthy(o.download) /\ Truthy(o.upload) /\ o.ping # None

cli_results(o) ==
  IF o.kind = "flat"
  THEN [download |-> bps_to_mbps(o.download), upload |-> bps_to_mbps(o.upload),
        ping |-> round_ping(o.ping)]
  ELSE [download |-> bps_to_mbps(o.download * 8),
        upload |-> bps_to_mbps((o.upload * 8) * 8),
        ping |-> round_ping(o.ping)]

\* measure_speed_cli from candidate k on; tried counts the candidates run.
RECURSIVE measure_speed_cli_from(_, _)
measure_speed_cli_from(runs, k) ==
  IF k > Len(candidates)
  THEN [raised |-> "RuntimeError", tried |-> k - 1, used |-> None,
        results |-> NoResults]
  ELSE IF cli_returns(runs[k])
  THEN [raised |-> "none", tried |-> k, used |-> k,
        results |-> cli_results(runs[k])]
  ELSE measure_speed_cli_from(runs, k + 1)

measure_speed_cli(runs) == measure_speed_cli_from(runs, 1)

\* measure_speed(): the primary, and the fallback in `except Exception`.
measure_speed(module, att, runs) ==
  LET p == measure_speed_python(module, att) IN
  IF p.raised = "none"
  THEN [raised |-> "none", fallback |-> FALSE, attempts |-> p.attempts,
        cli_tried |-> 0, results |-> p.results]
  ELSE IF p.raised = "Exception"
  THEN LET c == measure_speed_cli(runs) IN
       [raised |-> c.raised, fallback |-> TRUE, attempts |-> p.attempts,
        cli_tried |-> c.tried, results |-> c.results]
  ELSE [raised |-> p.raised, fallback |-> FALSE, attempts |-> p.attempts,
        cli_tried |-> 0, results |-> NoResults]

(***************************************************************************)
(* Log file and one run                                                    *)
(***************************************************************************)
\* The CSV file is its list of lines; the program never reads it, it only
\* tests whether it exists.  A line keeps the columns the run decides
\* (the timestamp and the constant identity columns are left out of the
\* record, `columns` counts all of them).
LogColumns == 17
NoFile == [exists |-> FALSE, lines |-> <<>>]
HeaderLine ==
  [kind |-> "header", columns |-> LogColumns, schedule_label |-> "schedule_label",
   submit_status |-> "submit_status", code |-> None, used_mapping |-> None,
   used_hidden |-> None, download |-> None, upload |-> None, ping |-> None]

\* ensure_log_header(path): writes the header only when the file is absent.
ensure_log_header(file) ==
  IF file.exists THEN file
  ELSE [exists |-> TRUE, lines |-> <<HeaderLine>>]

\* append_log(path, row): open(path, "a") creates the file when absent.
append_log(file, row) ==
  [exists |-> TRUE, lines |-> Append(file.lines, row)]

\* One step of a run, as run_once orders them: the call of measure_speed, of
\* ensure_log_header, each requests.post (a, b = its combination), the call
\* of append_log.
Event(name, a, b) == [e |-> name, a |-> a, b |-> b]

RECURSIVE PostEvents(_)
PostEvents(posts) ==
  IF posts = <<>> THEN <<>>
  ELSE <<Event("post", Head(posts)[1], Head(posts)[2])>> \o PostEvents(Tail(posts))

\* run_once(schedule_label): measure, ensure the header, submit, append the
\* row.  events lists, in order, what the run did; raised names the
\* exception that left run_once, if any.
run_once(schedule_label, id, env, file) ==
  LET m == measure_speed(env.module, env.att, env.runs) IN
  IF m.raised # "none"
  THEN [raised |-> m.raised, log |-> file, fallback |-> m.fallback,
        ok |-> FALSE, posts |-> <<>>,
        events |-> <<Event("measure_speed", None, None)>>]
  ELSE
    LET f1 == ensure_log_header(file)
        s == submit_official(id, env.ep)
        ev == <<Event("measure_speed", None, None),
                Event("ensure_log_header", None, None)>> \o PostEvents(s.posts)
        row == [kind |-> "row", columns |-> LogColumns,
                schedule_label |-> schedule_label,
                submit_status |-> IF s.ok THEN "SUCCESS" ELSE "FAIL",
                code |-> IF s.ok THEN None ELSE s.code,
                used_mapping |-> s.used_mapping, used_hidden |-> s.used_hidden,
                download |-> m.results.download, upload |-> m.results.upload,
                ping |-> m.results.ping]
    IN  IF s.raised # "none"
        THEN [raised |-> s.raised, log |-> f1, fallback |-> m.fallback,
              ok |-> FALSE, posts |-> s.posts, events |-> ev]
        ELSE [raised |-> "none", log |-> append_log(f1, row),
              fallback |-> m.fallback, ok |-> s.ok, posts |-> s.posts,
              events |-> Append(ev, Event("append_log", None, None))]

(***************************************************************************)
(* Scheduler                                                               *)
(***************************************************************************)
\* The wall clock is counted in ticks of TickMinutes minutes: the largest
\* unit that divides 07:00, 13:30 and 24:00.
TickMinutes == 30
DayTicks == (24 * 60) \div TickMinutes

\* Days 0..MaxDay are explored; the process starts on day 0.
MaxDay == 1
MaxClock == (MaxDay + 1) * DayTicks - 1
\* A run lasts at most MaxRunTicks ticks.
MaxRunTicks == 1
\* The wall clock is set back at most MaxAdjusts times, by at most
\* MaxClockBack ticks each time.
MaxAdjusts == 1
MaxClockBack == 2

Slots == 1..Len(SCHEDULES)
Labels == {SCHEDULES[k].label : k \in Slots}

\* date.today() when the clock shows t.
date_today(t) == t \div DayTicks
\* datetime.combine(day, datetime.min.time()).replace(hour=h, minute=m)
at_time(day, h, m) == day * DayTicks + (h * 60 + m) \div TickMinutes
\* next_dt_for(hour, minute, today), called when the clock shows t.
next_dt_for(hour, minute, today, t) ==
  LET candidate == at_time(today, hour, minute) IN
  IF candidate <= t THEN candidate + DayTicks ELSE candidate

\* The entry of `upcoming` for slot k, computed when the clock shows t.
upcoming_sched(k, lr, t) ==
  LET sl == SCHEDULES[k]
      sched_today == at_time(date_today(t), sl.h, sl.m)
  IN  IF lr[sl.label] = date_today(t)
      THEN next_dt_for(sl.h, sl.m, date_today(t), t)
      ELSE LET sched == next_dt_for(sl.h, sl.m, date_today(t), t) IN
           IF t < sched_today THEN sched_today ELSE sched

\* min(upcoming, key=lambda x: x[0]): the first entry with the least time.
upcoming_min(lr, t) ==
  CHOOSE k \in Slots :
    \A j \in Slots :
      \/ upcoming_sched(k, lr, t) < upcoming_sched(j, lr, t)
      \/ upcoming_sched(k, lr, t) = upcoming_sched(j, lr, t) /\ k <= j

\* The catch-up test of slot k: `now >= sched_today and last_run[label] !=
\* date.today()`, with `now` read at the top of the loop and date.today()
\* read at the test (clock t).
is_due(k, lr, now_, t) ==
  LET sl == SCHEDULES[k] IN
  /\ now_ >= at_time(date_today(t), sl.h, sl.m)
  /\ lr[sl.label] # date_today(t)

\* The chunked sleep, on a finer clock: half-seconds, so that a clock
\* reading has a whole-second part and a fraction (0 or .5) for int() to drop.
min_wait == 5
max_nap == 300
PerSecond == 2
\* int(timedelta.total_seconds()): truncation toward zero.
int_seconds(dh) ==
  IF dh >= 0 THEN dh \div PerSecond ELSE -((-dh) \div PerSecond)
\* wait_seconds = max(5, int((next_time - datetime.now()).total_seconds()))
first_wait(target, t) ==
  IF int_seconds(target - t) > min_wait THEN int_seconds(target - t)
  ELSE min_wait
\* (Variant: one sleep for the whole wait.)
nap_of_whole_wait(wait_seconds) == wait_seconds
\* nap = min(wait_seconds, 300)
nap_of(wait_seconds) ==
  IF wait_seconds < max_nap THEN wait_seconds ELSE max_nap

VARIABLES
  clock,       \* the wall clock, in ticks
  pc,          \* where loop_scheduler is: "top", "for", "pause", "upcoming",
               \* "sleep", "crashed" (an exception left the loop)
  now,         \* the local `now` of the current loop iteration
  i,           \* the slot the catch-up for loop is at
  ran_any,
  last_run,    \* label -> date of the last completed run, or None
  next_time,   \* the target of the chunked sleep
  next_label,
  error,       \* the exception that ended the process, or "none"
  identity,    \* SCHOOL_SECTOR, SERVICE_PROVIDER, SERVICE_TYPE
  log,         \* the log file
  adjusts,     \* how often the wall clock was set back
  fires,       \* history: label -> day -> run_once calls started on that day
  wake,        \* history: the run_once calls since the host resumed from a
               \* suspension that spanned an instant of every slot
  served,      \* history: label -> day -> a run_once call was started on
               \* that day at the slot's instant or later
  env,         \* argument of the function applied on its own (SpecSubmit, ...)
  ret,         \* its result
  fn           \* its name, "" before the call

vars ==
  << clock, pc, now, i, ran_any, last_run, next_time, next_label, error,
     identity, log, adjusts, fires, wake, served, env, ret, fn >>
schedVars ==
  << clock, pc, now, i, ran_any, last_run, next_time, next_label, error,
     adjusts, fires, wake, served >>
callVars == << env, ret, fn >>

\* Environments of a run.
AllOk == [k \in 1..max_attempts |->
           [kind |-> "ok", download |-> 45204999, upload |-> 10100000,
            ping |-> 18437]]
AllFail(kind) == [k \in 1..max_attempts |->
                   [kind |-> kind, download |-> 0, upload |-> 0, ping |-> 0]]
NoCli == [k \in 1..Len(candidates) |->
           [kind |-> "FileNotFoundError", download |-> None, upload |-> None,
            ping |-> None]]
Answer(s) == [c \in Combos |-> [exc |-> FALSE, status |-> s]]
Unreachable == [c \in Combos |-> [exc |-> TRUE, status |-> None]]
IdleEnv == [module |-> TRUE, att |-> AllOk, runs |-> NoCli, ep |-> Answer(200)]
NoRet == [raised |-> "none"]

\* What the runs fired by the scheduler meet.
RunEnvs ==
  { IdleEnv,
    [IdleEnv EXCEPT !.ep = Unreachable],
    [IdleEnv EXCEPT !.att = AllFail("transient")],
    [IdleEnv EXCEPT !.module = FALSE] }

NoWake == [on |-> FALSE, n |-> [l \in Labels |-> 0]]
Bump(n) == IF n < 2 THEN n + 1 ELSE n

\* A suspension from clock t0 to clock t1 spans an instant of every slot.
SpansAllSlots(t0, t1) ==
  \A k \in Slots : \E d \in 0..(MaxDay + 1) :
    /\ t0 < at_time(d, SCHEDULES[k].h, SCHEDULES[k].m)
    /\ at_time(d, SCHEDULES[k].h, SCHEDULES[k].m) <= t1

SchedInit ==
  /\ clock \in 0..(DayTicks - 1)
  /\ pc = "top"
  /\ now = None
  /\ i = 1
  /\ ran_any = FALSE
  /\ last_run = [l \in Labels |-> None]
  /\ next_time = None
  /\ next_label = ""
  /\ error = "none"
  /\ adjusts = 0
  /\ fires = [l \in Labels |-> [d \in 0..MaxDay |-> 0]]
  /\ wake = NoWake
  /\ served = [l \in Labels |-> [d \in 0..MaxDay |-> FALSE]]

Init ==
  /\ SchedInit
  /\ identity \in Identities
  /\ log = NoFile
  /\ env = IdleEnv
  /\ ret = NoRet
  /\ fn = ""

\* The clock t is at or after the instant of the slot `label` on the day of
\* t, or in the last second before it (tick instant - 1), where the chunked
\* sleep may end.
InTime(label, t) ==
  \E k \in Slots :
    /\ SCHEDULES[k].label = label
    /\ t >= at_time(date_today(t), SCHEDULES[k].h, SCHEDULES[k].m) - 1

\* loop_scheduler is inside run_once, called from the catch-up pass (line
\* 301) or after the chunked sleep (line 328).
RunPcs == {"run_catchup", "run_wake"}

\* (Variant: the run is started and the scheduler goes on without waiting
\* for it.)
FireStart_detached(label, t, at, w) ==
  /\ clock' = t
  /\ pc' = "top"
  /\ fires' = [fires EXCEPT ![label][date_today(t)] = Bump(@)]
  /\ wake' = IF w.on THEN [w EXCEPT !.n[label] = Bump(@)] ELSE w
  /\ served' = [served EXCEPT ![label][date_today(t)] =
                  @ \/ InTime(label, t)]
  /\ now' = None
  /\ i' = 1
  /\ next_time' = None
  /\ next_label' = ""
  /\ UNCHANGED << ran_any, last_run, error, identity, log, adjusts,
                  callVars >>

\* run_once(label) is called when the clock shows t; `at` is the call site.
FireStart(label, t, at, w) ==
  /\ clock' = t
  /\ pc' = at
  /\ fires' = [fires EXCEPT ![label][date_today(t)] = Bump(@)]
  /\ wake' = IF w.on THEN [w EXCEPT !.n[label] = Bump(@)] ELSE w
  /\ served' = [served EXCEPT ![label][date_today(t)] =
                  @ \/ InTime(label, t)]
  /\ UNCHANGED << now, i, ran_any, last_run, next_time, next_label, error,
                  identity, log, adjusts, callVars >>

\* (Variant: an exception of the run is noted and the loop goes on, the slot
\* not stamped.)
FireEnd_goes_on ==
  /\ pc \in RunPcs
  /\ \E e \in RunEnvs, d \in 0..MaxRunTicks :
       LET label == IF pc = "run_catchup" THEN SCHEDULES[i].label
                    ELSE next_label
           r == run_once(label, identity, e, log)
       IN  /\ clock + d <= MaxClock
           /\ clock' = clock + d
           /\ log' = r.log
           /\ error' = r.raised
           /\ last_run' = IF r.raised # "none" THEN last_run
                          ELSE [last_run EXCEPT ![label] = date_today(clock + d)]
  /\ pc' = "top"
  /\ now' = None
  /\ i' = 1
  /\ next_time' = None
  /\ next_label' = ""
  /\ UNCHANGED << ran_any, identity, adjusts, fires, wake, served, callVars >>

\* (Variant: the slot is stamped with the date on which the run was called.)
FireEnd_stamps_call_date ==
  /\ pc \in RunPcs
  /\ \E e \in RunEnvs, d \in 0..MaxRunTicks :
       LET label == IF pc = "run_catchup" THEN SCHEDULES[i].label
                    ELSE next_label
           r == run_once(label, identity, e, log)
       IN  /\ clock + d <= MaxClock
           /\ clock' = clock + d
           /\ log' = r.log
           /\ error' = r.raised
           /\ last_run' = IF r.raised # "none" THEN last_run
                          ELSE [last_run EXCEPT ![label] = date_today(clock)]
           /\ pc' = IF r.raised # "none" THEN "crashed"
                    ELSE IF pc = "run_catchup" THEN "for" ELSE "top"
           /\ ran_any' = (ran_any \/ (r.raised = "none" /\ pc = "run_catchup"))
           /\ i' = IF r.raised = "none" /\ pc = "run_catchup" THEN i + 1 ELSE 1
           /\ now' = IF r.raised = "none" /\ pc = "run_catchup" THEN now
                     ELSE None
  /\ next_time' = None
  /\ next_label' = ""
  /\ UNCHANGED << identity, adjusts, fires, wake, served, callVars >>

\* run_once returns or raises, d ticks after it was called.  On return the
\* caller stamps last_run[label] with date.today() and goes on; an exception
\* leaves run_once and loop_scheduler.  A run called in the last second
\* before next_time ends after that second.
FireEnd ==
  /\ pc \in RunPcs
  /\ \E e \in RunEnvs,
        d \in (IF pc = "run_wake" /\ clock < next_time THEN 1 ELSE 0)
                ..MaxRunTicks :
       LET label == IF pc = "run_catchup" THEN SCHEDULES[i].label
                    ELSE next_label
           r == run_once(label, identity, e, log)
       IN  /\ clock + d <= MaxClock
           /\ clock' = clock + d
           /\ log' = r.log
           /\ next_time' = None
           /\ next_label' = ""
           /\ IF r.raised # "none"
              THEN /\ pc' = "crashed"
                   /\ error' = r.raised
                   /\ now' = None
                   /\ i' = 1
                   /\ UNCHANGED << last_run, ran_any >>
              ELSE /\ error' = error
                   /\ last_run' =
                        [last_run EXCEPT ![label] = date_today(clock + d)]
                   /\ IF pc = "run_catchup"
                      THEN /\ pc' = "for"
                           /\ ran_any' = TRUE
                           /\ i' = i + 1
                           /\ now' = now
                      ELSE /\ pc' = "top"
                           /\ ran_any' = ran_any
                           /\ i' = 1
                           /\ now' = None
  /\ UNCHANGED << identity, adjusts, fires, wake, served, callVars >>

\* while True: now = datetime.now(); ran_any = False
LoopTop ==
  /\ pc = "top"
  /\ pc' = "for"
  /\ now' = clock
  /\ ran_any' = FALSE
  /\ i' = 1
  /\ UNCHANGED << clock, last_run, next_time, next_label, error, identity, log,
                  adjusts, fires, wake, served,
                  callVars >>

\* One iteration of the catch-up for loop whose slot is not due.
CatchUpSkip ==
  /\ pc = "for"
  /\ i \in Slots
  /\ ~is_due(i, last_run, now, clock)
  /\ i' = i + 1
  /\ UNCHANGED << clock, pc, now, ran_any, last_run, next_time, next_label,
                  error, identity, log, adjusts, fires, wake, served,
                  callVars >>

\* One iteration of the catch-up for loop whose slot is due.
CatchUpFire ==
  /\ pc = "for"
  /\ i \in Slots
  /\ is_due(i, last_run, now, clock)
  /\ FireStart(SCHEDULES[i].label, clock, "run_catchup", wake)

\* After the for loop: `if ran_any: time.sleep(30); continue`.
CatchUpEnd ==
  /\ pc = "for"
  /\ i \notin Slots
  /\ pc' = IF ran_any THEN "pause" ELSE "upcoming"
  /\ now' = None
  /\ i' = 1
  /\ UNCHANGED << clock, ran_any, last_run, next_time, next_label, error,
                  identity, log, adjusts, fires, wake, served,
                  callVars >>

\* time.sleep(30): less than a tick.
Pause ==
  /\ pc = "pause"
  /\ \E d \in 0..1 : clock + d <= MaxClock /\ clock' = clock + d
  /\ pc' = "top"
  /\ UNCHANGED << now, i, ran_any, last_run, next_time, next_label, error,
                  identity, log, adjusts, fires, wake, served,
                  callVars >>

\* Building `upcoming`, taking its minimum, wait_seconds = max(5, ...): the
\* clock may have moved on since `now` was read.
Upcoming ==
  /\ pc = "upcoming"
  /\ \E d \in 0..1 :
       LET t == clock + d
           k == upcoming_min(last_run, t)
       IN  /\ t <= MaxClock
           /\ clock' = t
           /\ next_time' = upcoming_sched(k, last_run, t)
           /\ next_label' = SCHEDULES[k].label
  /\ pc' = "sleep"
  /\ wake' = NoWake
  /\ UNCHANGED << now, i, ran_any, last_run, error, identity, log, adjusts,
                  fires, served, callVars >>

\* After one time.sleep(nap), with the clock at t:
\* wait_seconds = int((next_time - now).total_seconds()) is > 0 and the
\* sleep goes on, or it is <= 0 and run_once(next_label) is called.  int()
\* drops the fraction, so the loop also ends in the last second before
\* next_time (tick next_time - 1); the run then lasts beyond that second.
AfterNap(t, w) ==
  \/ /\ t < next_time
     /\ clock' = t
     /\ wake' = w
     /\ UNCHANGED << pc, now, i, ran_any, last_run, next_time, next_label,
                     error, identity, log, adjusts, fires, served, callVars >>
  \/ /\ t >= next_time - 1
     /\ FireStart(next_label, t, "run_wake", w)

\* One chunk of the sleep: nap = min(wait_seconds, 300) is less than a tick.
Nap ==
  /\ pc = "sleep"
  /\ \E d \in 0..1 : clock + d <= MaxClock /\ AfterNap(clock + d, wake)

\* The host is suspended during a chunk and resumes at a later time.
NapSuspended ==
  /\ pc = "sleep"
  /\ \E t \in (clock + 2)..MaxClock :
       AfterNap(t, IF SpansAllSlots(clock, t)
                   THEN [on |-> TRUE, n |-> [l \in Labels |-> 0]] ELSE wake)

\* The wall clock is set back (NTP, the user, a time-zone change).
ClockBack ==
  /\ pc \in {"pause", "sleep"}
  /\ adjusts < MaxAdjusts
  /\ \E d \in 1..MaxClockBack : clock - d >= 0 /\ clock' = clock - d
  /\ adjusts' = adjusts + 1
  /\ UNCHANGED << pc, now, i, ran_any, last_run, next_time, next_label, error,
                  identity, log, fires, wake, served,
                  callVars >>

Next ==
  \/ LoopTop
  \/ CatchUpSkip
  \/ CatchUpFire
  \/ FireEnd
  \/ CatchUpEnd
  \/ Pause
  \/ Upcoming
  \/ Nap
  \/ NapSuspended
  \/ ClockBack

Spec == Init /\ [][Next]_vars

(***************************************************************************)
(* The functions applied on their own                                      *)
(***************************************************************************)
\* The scheduler is not running.
SchedIdle ==
  /\ clock = 0
  /\ pc = "idle"
  /\ now = None
  /\ i = 1
  /\ ran_any = FALSE
  /\ last_run = [l \in Labels |-> None]
  /\ next_time = None
  /\ next_label = ""
  /\ error = "none"
  /\ adjusts = 0
  /\ fires = [l \in Labels |-> [d \in 0..MaxDay |-> 0]]
  /\ wake = NoWake
  /\ served = [l \in Labels |-> [d \in 0..MaxDay |-> FALSE]]

\* submit_official against every behaviour of the endpoint.
InitSubmit ==
  /\ SchedIdle
  /\ identity \in Identities
  /\ log = NoFile
  /\ env \in [module : {TRUE}, att : {AllOk}, runs : {NoCli},
              ep : [Combos -> Responses]]
  /\ ret = NoRet
  /\ fn = ""

CallSubmit ==
  /\ fn = ""
  /\ fn' = "submit_official"
  /\ ret' = submit_official(identity, env.ep)
  /\ UNCHANGED << schedVars, identity, log, env >>

SpecSubmit == InitSubmit /\ [][CallSubmit]_vars

\* The submission routines of the three scripts, each applied to the same
\* answers of the endpoint.
CallTrySubmit ==
  /\ fn = ""
  /\ fn' = "try_submit_with_mapping"
  /\ ret' = try_submit_with_mapping(identity, 1, 1, env.ep)
  /\ UNCHANGED << schedVars, identity, log, env >>

CallSubmitForm ==
  /\ fn = ""
  /\ fn' = "submit_form"
  /\ ret' = submit_form(AttemptResponses(env.ep, variants))
  /\ UNCHANGED << schedVars, identity, log, env >>

CallSubmitToForm ==
  /\ fn = ""
  /\ fn' = "submit_to_form"
  /\ ret' = submit_to_form(AttemptResponses(env.ep, retries), retries,
                          backoff_sec)
  /\ UNCHANGED << schedVars, identity, log, env >>

NextAttempt ==
  \/ CallTrySubmit
  \/ CallSubmitForm
  \/ CallSubmitToForm

SpecAttempt == InitSubmit /\ [][NextAttempt]_vars

\* The payload try_submit_with_mapping builds, for every combination and
\* identity and some measured speeds.
Downloads == {0, 4520, 10000}

InitPayload ==
  /\ SchedIdle
  /\ identity \in Identities
  /\ log = NoFile
  /\ env \in [mi : 1..Len(TEXT_MAPPING_TRIES), hi : 1..Len(HIDDEN_CANDIDATES),
              download : Downloads]
  /\ ret = NoRet
  /\ fn = ""

CallBuildPayload ==
  /\ fn = ""
  /\ fn' = "payload"
  /\ ret' = IF build_payload_base_raises(identity)
            THEN [raised |-> "ValueError", payload |-> <<>>]
            ELSE [raised |-> "none",
                  payload |-> payload(identity, env.mi, env.hi, env.download)]
  /\ UNCHANGED << schedVars, identity, log, env >>

SpecPayload == InitPayload /\ [][CallBuildPayload]_vars

\* submit_to_form with the --retries and --backoff of the command line:
\* retries from 0 to MaxRetries, whole-second backoffs.
MaxRetries == 3
Backoffs == {0, 2, 3}

InitRetry ==
  /\ SchedIdle
  /\ identity = [sector |-> "Seeb", provider |-> "Omantel",
                 service_type |-> "Fiber"]
  /\ log = NoFile
  /\ env \in [rs : [1..MaxRetries -> Responses], retries : 0..MaxRetries,
              backoff_sec : Backoffs]
  /\ ret = NoRet
  /\ fn = ""

CallSubmitToFormArgs ==
  /\ fn = ""
  /\ fn' = "submit_to_form"
  /\ ret' = submit_to_form(env.rs, env.retries, env.backoff_sec)
  /\ UNCHANGED << schedVars, identity, log, env >>

SpecRetry == InitRetry /\ [][CallSubmitToFormArgs]_vars

\* measure_speed against every behaviour of the probe and of the CLI.
InitMeasure ==
  /\ SchedIdle
  /\ identity = [sector |-> "Seeb", provider |-> "Omantel",
                 service_type |-> "Fiber"]
  /\ log = NoFile
  /\ env \in [module : BOOLEAN, att : [1..max_attempts -> AttemptOutcomes],
              runs : [1..Len(candidates) -> CliOutcomes], ep : {Answer(200)}]
  /\ ret = NoRet
  /\ fn = ""

CallMeasure ==
  /\ fn = ""
  /\ fn' = "measure_speed"
  /\ ret' = measure_speed(env.module, env.att, env.runs)
  /\ UNCHANGED << schedVars, identity, log, env >>

SpecMeasure == InitMeasure /\ [][CallMeasure]_vars

\* measure_speed_python alone, against every behaviour of the probe.
CallMeasurePython ==
  /\ fn = ""
  /\ fn' = "measure_speed_python"
  /\ ret' = measure_speed_python(env.module, env.att)
  /\ UNCHANGED << schedVars, identity, log, env >>

SpecPython == InitMeasure /\ [][CallMeasurePython]_vars

\* measure_speed_cli alone, against every behaviour of the two binaries.
CallMeasureCli ==
  /\ fn = ""
  /\ fn' = "measure_speed_cli"
  /\ ret' = measure_speed_cli(env.runs)
  /\ UNCHANGED << schedVars, identity, log, env >>

SpecCli == InitMeasure /\ [][CallMeasureCli]_vars

\* Runs one after the other (run_once called as loop_scheduler calls it),
\* without the clock: at most MaxRows rows are written.
MaxRows == 2

FirstFailsThenOk ==
  [AllOk EXCEPT ![1] = [kind |-> "transient", download |-> 0, upload |-> 0,
                        ping |-> 0]]
FlatCli ==
  [NoCli EXCEPT ![1] = [kind |-> "flat", download |-> 100000000,
                        upload |-> 100000000, ping |-> 18437]]
OnlyAccepts(c, other) ==
  [x \in Combos |-> IF x = c THEN [exc |-> FALSE, status |-> 200] ELSE other]

\* Every combination is answered with status s, the last one with status t.
LastAnswers(s, t) ==
  [x \in Combos |->
     [exc |-> FALSE,
      status |-> IF x = <<Len(TEXT_MAPPING_TRIES), Len(HIDDEN_CANDIDATES)>>
                 THEN t ELSE s]]

RunOnceEnvs ==
  [module : BOOLEAN,
   att : {AllOk, FirstFailsThenOk, AllFail("other")},
   runs : {NoCli, FlatCli},
   ep : {Answer(200), Answer(302), Answer(404), Unreachable,
         LastAnswers(404, 500),
         OnlyAccepts(<<2, 1>>, [exc |-> FALSE, status |-> 404]),
         OnlyAccepts(<<3, 2>>, [exc |-> TRUE, status |-> None])}]

\* logs/speed_log.csv of the working directory before the first run: absent,
\* begun by this script, or begun by submit_speed_and_send_autorun.py, which
\* writes the same path with a header of AutorunLogColumns columns.
AutorunLogColumns == 15
LogFiles ==
  { NoFile,
    [exists |-> TRUE, lines |-> <<HeaderLine>>],
    [exists |-> TRUE,
     lines |-> <<[HeaderLine EXCEPT !.columns = AutorunLogColumns]>>] }

InitRun ==
  /\ SchedIdle
  /\ identity \in Identities
  /\ log \in LogFiles
  /\ env = IdleEnv
  /\ ret = NoRet
  /\ fn = ""

\* One call of run_once; an exception that leaves it ends the process.
CallRunOnce ==
  /\ error = "none"
  /\ Len(log.lines) <= MaxRows
  /\ \E l \in Labels, e \in RunOnceEnvs :
       LET r == run_once(l, identity, e, log) IN
       /\ env' = e
       /\ ret' = r
       /\ log' = r.log
       /\ error' = r.raised
  /\ fn' = "run_once"
  /\ UNCHANGED << clock, pc, now, i, ran_any, last_run, next_time, next_label,
                  identity, adjusts, fires, wake, served >>

SpecRun == InitRun /\ [][CallRunOnce]_vars

\* The chunked sleep of loop_scheduler alone, in half-seconds.  The target
\* is at most MaxWait seconds after the clock reading of line 321 (or
\* already passed); time.sleep(nap) returns after nap seconds, or later:
\* by a fraction of a second, or by ResumeJump seconds when the host was
\* suspended or the clock was set forward during the chunk.
MaxWait == 640
ResumeJump == 400
Overruns == {0, 1, ResumeJump * PerSecond}

InitSleep ==
  /\ SchedIdle
  /\ identity = [sector |-> "Seeb", provider |-> "Omantel",
                 service_type |-> "Fiber"]
  /\ log = NoFile
  /\ env \in [next_time : {MaxWait * PerSecond},
              start : 0..(MaxWait * PerSecond + 2 * PerSecond)]
  /\ ret = [now |-> env.start,
            wait_seconds |-> first_wait(env.next_time, env.start),
            nap |-> 0, began |-> None, chunks |-> 0]
  /\ fn = "sleep"

\* One pass of `while wait_seconds > 0`: nap, time.sleep(nap), recompute.
SleepChunk ==
  /\ fn = "sleep"
  /\ ret.wait_seconds > 0
  /\ \E o \in Overruns :
       LET nap == nap_of(ret.wait_seconds)
           t == ret.now + nap * PerSecond + o
       IN  ret' = [now |-> t,
                   wait_seconds |-> int_seconds(env.next_time - t),
                   nap |-> nap, began |-> ret.now, chunks |-> ret.chunks + 1]
  /\ UNCHANGED << schedVars, identity, log, env, fn >>

\* The loop test fails: run_once(next_label) is called.
SleepEnd ==
  /\ fn = "sleep"
  /\ ret.wait_seconds <= 0
  /\ fn' = "slept"
  /\ UNCHANGED << schedVars, identity, log, env, ret >>

NextSleep ==
  \/ SleepChunk
  \/ SleepEnd

SpecSleep == InitSleep /\ [][NextSleep]_vars

(***************************************************************************)
(* Properties                                                              *)
(***************************************************************************)
\* What the properties say of the inputs, stated apart from the code.
ValidIdentity(id) ==
  /\ id.sector \in {"Muscat", "Qurayyat", "Seeb", "Amerat", "Bawshar", "Muttrah"}
  /\ id.provider \in {"Omantel", "Ooredoo", "Awasr"}
  /\ id.service_type \in {"Fiber", "5 G"}
Accepts(r) == ~r.exc /\ r.status \in {200, 302}
\* Combination a is ranked before b: mappings first, hidden sets second.
RankedBefore(a, b) == a[1] < b[1] \/ (a[1] = b[1] /\ a[2] < b[2])
NumCombos == Cardinality(Combos)
NoFires == \A l \in Labels : \A d \in 0..MaxDay : fires[l][d] = 0

\* C1: for every slot label S and calendar day D, run_once(S) is started at
\* most once at a wall-clock time on D.  Stated here for the runs of a
\* process whose clock is never set back; the claim also covers clock
\* adjustments.
C1_AtMostOneFiringPerDay ==
  adjusts = 0 => \A l \in Labels : \A d \in 0..MaxDay : fires[l][d] <= 1

\* C2: when the host resumes from a suspension during the chunked sleep that
\* spanned an instant of both slots, both slots are fired, each exactly
\* once, before the scheduler begins its next sleep.
C2_BothFireOnceAfterResume ==
  [][(wake.on /\ pc = "upcoming" /\ pc' = "sleep")
       => \A l \in Labels : wake.n[l] = 1]_vars

\* C3: submit_official returns success if and only if some combination is
\* answered with 200 or 302, whatever the endpoint does (statuses or
\* transport failures).
C3_SuccessIffSomeAccepted ==
  (fn = "submit_official" /\ ValidIdentity(identity))
    => (ret.ok <=> (\E c \in Combos : Accepts(env.ep[c])))

\* C4: the POSTs go in ranked order (mappings outer, hidden sets inner), each
\* combination at most once; none follows the first accepted one; failure
\* is declared only after all |mappings| x |hidden sets| were attempted.
C4_RankedOrderStopAtFirst ==
  fn = "submit_official"
    => /\ \A k \in 1..Len(ret.posts) :
            /\ ret.posts[k] \in Combos
            /\ Cardinality({c \in Combos : RankedBefore(c, ret.posts[k])}) = k - 1
       /\ \A k \in 1..(Len(ret.posts) - 1) : ~Accepts(env.ep[ret.posts[k]])
       /\ (ret.raised = "none" /\ ~ret.ok) => Len(ret.posts) = NumCombos
C4_Witness ==
  /\ fn = "submit_official"
  /\ ret.raised = "none"
  /\ ~ret.ok
  /\ Len(ret.posts) = NumCombos

\* C5 as stated: when only (2nd mapping, 1st hidden set) is accepted, the
\* engine attempts combination 1, which fails, then combination 2, which
\* succeeds: two POSTs, and success with that combination.
AcceptsOnly21 ==
  \A c \in Combos : Accepts(env.ep[c]) <=> c = <<2, 1>>
C6_TransportErrorCaught ==
  (fn = "submit_official" /\ ValidIdentity(identity))
    => /\ ret.raised # "RequestException"
       /\ \A k \in 1..Len(ret.posts) :
            (env.ep[ret.posts[k]].exc /\ k < NumCombos) => Len(ret.posts) > k

\* C7: no error raised while firing a slot ends loop_scheduler (here: with a
\* valid identity, so measurement and transport errors only).
C7_NoErrorEndsLoop ==
  ValidIdentity(identity) => (pc # "crashed" /\ error = "none")

C9_ConfigErrorHaltsAtStartup ==
  ~ValidIdentity(identity)
    => /\ NoFires
       /\ i = 1
       /\ pc \notin {"upcoming", "sleep", "pause"}

\* C10: within one measure_speed, the CLI fallback is invoked if and only if
\* the primary made all its max_attempts = 3 attempts and none succeeded; a
\* failed attempt followed by a successful retry gives the primary's
\* measurement and no fallback.
PrimaryExhausted ==
  env.module /\ \A k \in 1..3 : env.att[k].kind # "ok"
C10_FallbackIffExhausted ==
  fn = "measure_speed"
    => /\ ret.fallback <=> PrimaryExhausted
       /\ ret.fallback => ret.attempts = 3
       /\ (env.module /\ env.att[1].kind # "ok" /\ env.att[2].kind = "ok")
            => /\ ~ret.fallback
               /\ ret.raised = "none"
               /\ ret.attempts = 2
               /\ ret.results = [download |-> 4520, upload |-> 1010,
                                 ping |-> 1844]
C10_Witness ==
  /\ fn = "measure_speed"
  /\ env.module
  /\ env.att[1].kind = "transient"
  /\ env.att[2].kind = "ok"
  /\ ~ret.fallback
  /\ ret.attempts = 2

\* C11: measure_speed_cli gives the same Mbps values for a rate reported in
\* the nested schema (b byte/s) and for the equal rate reported in the flat
\* schema (8 * b bit/s), for download and for upload: nested 12,500,000 and
\* flat 100,000,000 both give 100.00 Mbps.
NestedAsFlat(o) ==
  [kind |-> "flat", download |-> o.download * 8, upload |-> o.upload * 8,
   ping |-> o.ping]
C11_SchemasNormalizeEqually ==
  (fn = "measure_speed" /\ ret.fallback /\ ret.raised = "none"
     /\ env.runs[ret.cli_tried].kind = "nested")
    => /\ ret.results.download
            = cli_results(NestedAsFlat(env.runs[ret.cli_tried])).download
       /\ ret.results.upload
            = cli_results(NestedAsFlat(env.runs[ret.cli_tried])).upload
       /\ env.runs[ret.cli_tried].upload = 12500000
            => ret.results.upload = 10000

\* C20: on any failure of the primary, the missing speedtest module
\* included, measure_speed runs the CLI fallback before the measurement is
\* reported as failed.
PrimaryFails ==
  ~env.module \/ \A k \in 1..3 : env.att[k].kind # "ok"
C20_FallbackOnAnyPrimaryFailure ==
  (fn = "measure_speed" /\ PrimaryFails)
    => /\ ret.fallback
       /\ ret.cli_tried >= 1

\* C19: measure_speed_python makes at least 1 and at most max_attempts = 3
\* attempts and returns at the first successful one; after failed attempt k
\* it waits 20 * k seconds when the error is transient and 5 seconds
\* otherwise; when all attempts fail it raises the last attempt's error.
FirstOk ==
  IF \E k \in 1..3 : env.att[k].kind = "ok"
  THEN CHOOSE k \in 1..3 :
         env.att[k].kind = "ok" /\ \A j \in 1..(k - 1) : env.att[j].kind # "ok"
  ELSE 0
ExpectedWait(k) == IF env.att[k].kind = "transient" THEN 20 * k ELSE 5
AttemptsAndWaits ==
  /\ ret.attempts \in 1..3
  /\ FirstOk # 0 => (ret.raised = "none" /\ ret.attempts = FirstOk)
  /\ FirstOk = 0 => /\ ret.raised = "Exception"
                    /\ ret.attempts = 3
                    /\ ret.err = env.att[3].kind
  /\ Len(ret.sleeps) = (IF FirstOk # 0 THEN FirstOk - 1 ELSE 3)
  /\ \A k \in 1..Len(ret.sleeps) : ret.sleeps[k] = ExpectedWait(k)
C19_AttemptsAndWaits ==
  fn = "measure_speed_python" => AttemptsAndWaits
\* C19 amended: the above whenever `import speedtest` succeeds; when the
\* import fails the call raises SystemExit with no attempt and no wait.
C19_AttemptsAndWaitsOrNoImport ==
  fn = "measure_speed_python"
    => /\ env.module => AttemptsAndWaits
       /\ ~env.module => /\ ret.raised = "SystemExit"
                         /\ ret.attempts = 0
                         /\ ret.sleeps = <<>>
C19_Witness ==
  /\ fn = "measure_speed_python"
  /\ env.module
  /\ env.att[1].kind = "other"
  /\ env.att[2].kind = "transient"
  /\ env.att[3].kind = "transient"
  /\ ret.raised = "Exception"
  /\ ret.sleeps = <<5, 40, 60>>

\* C12: every call of run_once appends exactly one row to the log, whatever
\* the outcome of the measurement and of the submission; the lines already
\* in the log stay as they are.
Rows(file) == {k \in 1..Len(file.lines) : file.lines[k].kind = "row"}
C12_OneRowPerRun ==
  [][fn' = "run_once"
       => /\ Cardinality(Rows(log')) = Cardinality(Rows(log)) + 1
          /\ \A k \in 1..Len(log.lines) : log'.lines[k] = log.lines[k]]_vars

\* C14: when the host resumes with an instant of every slot passed, the
\* scheduler fires all the slots in ascending time-of-day order (the order
\* of SCHEDULES) before it goes back to sleep: no slot is fired after a
\* later slot of the same wake cycle, and none is left out.
C14_OverdueFireAscending ==
  [][/\ \A j \in Slots : \A k \in Slots :
          (wake.on /\ j < k
             /\ wake'.n[SCHEDULES[j].label] > wake.n[SCHEDULES[j].label])
            => wake.n[SCHEDULES[k].label] = 0
     /\ (wake.on /\ pc = "upcoming" /\ pc' = "sleep")
          => \A l \in Labels : wake.n[l] >= 1]_vars

\* C18: the sleep target of a slot is today's instant only if the slot has
\* not run today and that instant is still in the future, and tomorrow's
\* instant otherwise (always so when last_run[label] is today); the
\* scheduler sleeps toward the earliest target and fires its label.
ExpectedTarget(k, lr, t) ==
  LET today == t \div DayTicks
      inst == today * DayTicks
                + (SCHEDULES[k].h * 60 + SCHEDULES[k].m) \div TickMinutes
  IN  IF lr[SCHEDULES[k].label] # today /\ t < inst THEN inst
      ELSE inst + DayTicks
C18_SleepTargets ==
  [][(pc = "upcoming" /\ pc' = "sleep")
       => /\ \A k \in Slots : next_time' <= ExpectedTarget(k, last_run, clock')
          /\ \E k \in Slots :
               /\ next_time' = ExpectedTarget(k, last_run, clock')
               /\ next_label' = SCHEDULES[k].label]_vars

\* C16: no single sleep of the chunked sleep exceeds 300 seconds; after
\* every chunk the remaining time is the whole seconds from the current
\* clock to the fixed target; the loop ends within one chunk of the clock
\* reaching or passing the target: it sleeps on only while the target is
\* ahead, and no chunk but the first is begun with the target reached.
C16_ChunkedSleep ==
  (fn \in {"sleep", "slept"} /\ ret.chunks > 0)
    => /\ ret.nap >= 1 /\ ret.nap <= 300
       /\ ret.now >= ret.began + 2 * ret.nap
       /\ env.next_time >= ret.now
            => /\ 2 * ret.wait_seconds <= env.next_time - ret.now
               /\ env.next_time - ret.now < 2 * ret.wait_seconds + 2
       /\ ret.now >= env.next_time => ret.wait_seconds <= 0
       /\ ret.wait_seconds > 0 => ret.now < env.next_time
       /\ ret.chunks > 1 => ret.began < env.next_time
C16_Witness ==
  /\ fn = "slept"
  /\ ret.chunks = 2
  /\ ret.nap = 300
  /\ ret.now > env.next_time + 600

\* C17: two slot executions never overlap: while a run_once is in progress
\* no slot is evaluated and no other run is started, the scheduler goes on
\* only when the run has ended, and the log is written by the one run in
\* progress only, one row at most.
C17_RunsDoNotOverlap ==
  [][/\ pc \in RunPcs
          => /\ fires' = fires
             /\ pc' \in {"for", "top", "crashed"}
             /\ i' \in {i, i + 1, 1}
     /\ fires' # fires => (pc \notin RunPcs /\ pc' \in RunPcs)
     /\ log' # log
          => /\ pc \in RunPcs
             /\ Len(log'.lines) <= Len(log.lines) + 2
             /\ Cardinality({k \in 1..Len(log'.lines) :
                               log'.lines[k].kind = "row"})
                  <= Cardinality({k \in 1..Len(log.lines) :
                                    log.lines[k].kind = "row"}) + 1]_vars
C17_Witness ==
  /\ pc = "run_catchup"
  /\ i = 2
  /\ fires["07:00"][0] = 1
  /\ fires["13:30"][0] = 1
  /\ last_run["07:00"] = 0
  /\ Len(log.lines) = 2

\* C15: every submission routine (try_submit_with_mapping, submit_form,
\* submit_to_form) takes an attempt for a success exactly when its status is
\* 200 or 302; any other status and a transport exception are no success:
\* the routine reports success exactly when one of its attempts was
\* answered with 200 or 302, and no exception leaves it.
C15_SuccessIs200Or302 ==
  /\ (fn = "try_submit_with_mapping" /\ ValidIdentity(identity))
       => /\ ret.raised = "none"
          /\ ret.ok <=> Accepts(env.ep[RankedCombos[1]])
  /\ fn = "submit_form"
       => /\ ret.raised = "none"
          /\ ret.ok <=> \E k \in 1..2 : Accepts(env.ep[RankedCombos[k]])
  /\ fn = "submit_to_form"
       => /\ ret.raised = "none"
          /\ ret.ok <=> \E k \in 1..3 : Accepts(env.ep[RankedCombos[k]])

\* C13: a run measures, then appends to the log whatever the measurement
\* gave, then submits, then appends the outcome: in particular a log append
\* comes before every POST of the run.
C13_AppendBeforeFirstPost ==
  fn = "run_once"
    => \A k \in 1..Len(ret.events) :
         ret.events[k].e = "post"
           => \E j \in 1..(k - 1) : ret.events[j].e = "append_log"

\* C21: per firing, the primary is invoked once (at most 3 attempts) and the
\* fallback at most once (each candidate binary run at most once); when the
\* fallback fails the measurement fails with no further attempt, and the
\* scheduler starts no run of any slot after a run whose measurement failed.
MeasurementFailed(e) ==
  /\ e.module
  /\ \A k \in 1..3 : e.att[k].kind # "ok"
  /\ \A k \in 1..2 : e.runs[k].kind \notin {"flat", "nested"}
C21_NoReattemptAfterFailure ==
  [][/\ error = "RuntimeError" => fires' = fires
     /\ pc \in RunPcs
          => \A e \in RunEnvs :
               LET m == measure_speed(e.module, e.att, e.runs) IN
               /\ m.attempts <= 3
               /\ m.cli_tried <= 2
               /\ MeasurementFailed(e)
                    => /\ m.raised = "RuntimeError"
                       /\ m.attempts = 3
                       /\ m.cli_tried = 2
     /\ (pc \in RunPcs /\ error' = "RuntimeError")
          => /\ pc' = "crashed"
             /\ last_run' = last_run
             /\ log' = log]_vars
C21_Witness ==
  /\ error = "RuntimeError"
  /\ pc = "crashed"
  /\ fires["07:00"][0] = 1
  /\ fires["13:30"][0] = 0
  /\ last_run["07:00"] = None
  /\ clock >= 27

\* C22: measure_speed_cli returns the result of the first candidate, in the
\* order speedtest, speedtest.exe, that exits with code 0 and prints the
\* flat or the nested schema (download, upload and ping present); every
\* other outcome of a candidate yields nothing, and when no candidate
\* yields a measurement the function raises RuntimeError.
MatchesSchema(o) ==
  \/ o.kind = "flat"
  \/ /\ o.kind = "nested"
     /\ o.download # None /\ o.upload # None /\ o.ping # None
FirstMatching ==
  IF \E k \in 1..2 : MatchesSchema(env.runs[k])
  THEN CHOOSE k \in 1..2 :
         /\ MatchesSchema(env.runs[k])
         /\ \A j \in 1..(k - 1) : ~MatchesSchema(env.runs[j])
  ELSE 0
C22_FirstMatchingCandidate ==
  fn = "measure_speed_cli"
    => IF FirstMatching = 0
       THEN ret.raised = "RuntimeError" /\ ret.tried = 2
       ELSE /\ ret.raised = "none"
            /\ ret.used = FirstMatching
            /\ ret.tried = FirstMatching

\* C30: a nested output (exit code 0, type = "result") whose download
\* bandwidth, upload bandwidth and ping latency are present numbers >= 0,
\* the value 0 included, gives a measurement, and every field of a
\* measurement that measure_speed_cli returns is a number >= 0, never None.
NestedWithNumbers(o) ==
  o.kind = "nested" /\ o.download >= 0 /\ o.upload >= 0 /\ o.ping >= 0
C30_NestedZeroMeasured ==
  fn = "measure_speed_cli"
    => /\ NestedWithNumbers(env.runs[1])
            => /\ ret.raised = "none"
               /\ ret.used = 1
       /\ ret.raised = "none"
            => /\ ret.results.download >= 0
               /\ ret.results.upload >= 0
               /\ ret.results.ping >= 0

\* C23: when no combination is accepted, submit_official returns failure
\* with the status code of the last combination (last mapping, last hidden
\* set) and used_mapping = used_hidden = None, and the row of the run
\* records FAIL(that code).
NoneAccepted == \A c \in Combos : ~Accepts(env.ep[c])
Measured ==
  /\ env.module
  /\ \/ \E k \in 1..3 : env.att[k].kind = "ok"
     \/ \E k \in 1..2 : env.runs[k].kind = "flat"
C23_FailureCarriesLastCode ==
  (fn = "run_once" /\ ValidIdentity(identity) /\ Measured /\ NoneAccepted)
    => /\ ret.raised = "none"
       /\ ~ret.ok
       /\ Len(log.lines) >= 2
       /\ LET row == log.lines[Len(log.lines)] IN
          /\ row.kind = "row"
          /\ row.submit_status = "FAIL"
          /\ row.code = env.ep[<<3, 2>>].status
          /\ row.used_mapping = None
          /\ row.used_hidden = None

\* C24: every payload POSTed holds the school code, sector, provider and
\* service type under their fixed identifiers with the configured values,
\* and fvv and pageHistory; the four free-text fields lie under four
\* pairwise distinct identifiers out of X_A..X_D, none overwriting another.
TextIds ==
  {"entry.560537791", "entry.1862560773", "entry.181224386",
   "entry.556952249"}
FixedAndTextFields ==
  /\ ret.raised = "none"
  /\ ret.payload["entry.899161738"] = "1561"
  /\ ret.payload["entry.1313908626"] = identity.sector
  /\ ret.payload["entry.927675658"] = identity.provider
  /\ ret.payload["entry.66731299"] = identity.service_type
  /\ ret.payload["fvv"] = "1"
  /\ ret.payload["pageHistory"] = "0"
  /\ TextIds \subseteq DOMAIN ret.payload
  /\ {ret.payload[k] : k \in TextIds}
       = {"SCHOOL_NAME", "24424428", speed_text(env.download), "notes_text"}
  /\ DOMAIN ret.payload \ {"fbzx"}
       = TextIds \cup {"entry.899161738", "entry.1313908626",
                       "entry.927675658", "entry.66731299", "fvv",
                       "pageHistory"}
\* The payload of another attempt of the same submission.
OtherPayload(c) == payload(identity, c[1], c[2], env.download)
\* C24 as stated: moreover only the text-field keys differ between attempts.
C24_OnlyTextKeysDiffer ==
  (fn = "payload" /\ ValidIdentity(identity))
    => /\ FixedAndTextFields
       /\ \A c \in Combos :
            /\ DOMAIN OtherPayload(c) = DOMAIN ret.payload
            /\ \A k \in DOMAIN ret.payload \ TextIds :
                 OtherPayload(c)[k] = ret.payload[k]
\* C24 amended: between attempts only the text-field keys and the presence
\* of the optional hidden parameter fbzx differ.
C24_TextKeysAndTokenDiffer ==
  (fn = "payload" /\ ValidIdentity(identity))
    => /\ FixedAndTextFields
       /\ \A c \in Combos :
            /\ DOMAIN OtherPayload(c) \ {"fbzx"} = DOMAIN ret.payload \ {"fbzx"}
            /\ "fbzx" \in DOMAIN OtherPayload(c) <=> c[2] = 2
            /\ \A k \in DOMAIN ret.payload \ (TextIds \cup {"fbzx"}) :
                 OtherPayload(c)[k] = ret.payload[k]
       /\ "fbzx" \in DOMAIN ret.payload
            => ret.payload["fbzx"] = "8122308104194036559"
C24_Witness ==
  /\ fn = "payload"
  /\ ValidIdentity(identity)
  /\ env.mi = 3
  /\ env.hi = 2
  /\ ret.payload["entry.1862560773"] = "SCHOOL_NAME"
  /\ ret.payload["entry.560537791"] = "24424428"
  /\ "fbzx" \in DOMAIN ret.payload

\* C25: submit_to_form(payload, retries, backoff_sec) issues at most
\* `retries` POSTs, returns True at the first accepted response (200 or
\* 302) with no further POST, waits backoff_sec * attempt after failed
\* attempt number `attempt`, and returns False exactly when all `retries`
\* attempts were made and none was accepted (none at all for retries = 0).
FirstAccepted ==
  IF \E k \in 1..env.retries : Accepts(env.rs[k])
  THEN CHOOSE k \in 1..env.retries :
         Accepts(env.rs[k]) /\ \A j \in 1..(k - 1) : ~Accepts(env.rs[j])
  ELSE 0
C25_RetriesUntilAccepted ==
  (fn = "submit_to_form" /\ env.retries \in 0..MaxRetries)
    => /\ ret.raised = "none"
       /\ ret.attempts <= env.retries
       /\ FirstAccepted # 0
            => /\ ret.ok
               /\ ret.attempts = FirstAccepted
               /\ Len(ret.sleeps) = FirstAccepted - 1
       /\ FirstAccepted = 0
            => /\ ~ret.ok
               /\ ret.attempts = env.retries
               /\ Len(ret.sleeps) = env.retries
       /\ \A k \in 1..Len(ret.sleeps) : ret.sleeps[k] = env.backoff_sec * k

\* C26: the log is append-only and created idempotently: a run leaves the
\* lines of an existing file as they are and adds at the end; after any
\* sequence of runs the file is one header row followed by data rows, each
\* with the columns of the header.
IsPrefix(a, b) ==
  /\ Len(a) <= Len(b)
  /\ \A k \in 1..Len(a) : b[k] = a[k]
WellFormed(file) ==
  file.exists
    => /\ Len(file.lines) >= 1
       /\ file.lines[1].kind = "header"
       /\ \A k \in 2..Len(file.lines) :
            /\ file.lines[k].kind = "row"
            /\ file.lines[k].columns = file.lines[1].columns
C26_AppendOnlyOneHeader ==
  [][/\ IsPrefix(log.lines, log'.lines)
     /\ log.exists => log'.exists
     /\ WellFormed(log')]_vars

\* C27: a slot is fired only when it is due: when run_once(S) is started,
\* from the catch-up pass or after the chunked sleep, the clock is at or
\* after S's instant of the current day and last_run[S] is not that day.
SlotInstant(k, day) ==
  day * DayTicks + (SCHEDULES[k].h * 60 + SCHEDULES[k].m) \div TickMinutes
StartedSlot ==
  CHOOSE k \in Slots :
    SCHEDULES[k].label = (IF pc' = "run_catchup" THEN SCHEDULES[i'].label
                          ELSE next_label')
C27_FiredOnlyWhenDue ==
  [][(pc \notin RunPcs /\ pc' \in RunPcs)
       => /\ clock' >= SlotInstant(StartedSlot, clock' \div DayTicks)
          /\ last_run[SCHEDULES[StartedSlot].label] # clock' \div DayTicks]_vars

\* C28: on every day D on which the catch-up pass evaluates slot S at or
\* after S's instant on D, S is fired on D at or after that instant (a
\* firing in the last second before the instant counted as well): S is
\* fired by that evaluation, or it was fired so earlier on D; it is never
\* passed over for a stamp last_run[S] = D left by a firing that belonged
\* to an earlier occurrence.
C28_NoOccurrenceLost ==
  [][(/\ pc = "for"
      /\ i \in Slots
      /\ i' = i + 1
      /\ now >= SlotInstant(i, clock \div DayTicks))
       => served[SCHEDULES[i].label][clock \div DayTicks]]_vars

\* C29: last_run is changed only by firing: last_run[S] is assigned only
\* when run_once(S) has returned, to the date of that moment, the entries
\* of the other labels staying as they are; every other step (evaluation,
\* pause, sleep, a run that raises) leaves the map unchanged, and no entry
\* goes back to None.
RunningLabel ==
  IF pc = "run_catchup" THEN SCHEDULES[i].label ELSE next_label
C29_StampedOnlyByFiring ==
  [][/\ (pc \in RunPcs /\ pc' \in {"for", "top"})
          => /\ last_run'[RunningLabel] = clock' \div DayTicks
             /\ \A l \in Labels \ {RunningLabel} : last_run'[l] = last_run[l]
     /\ ~(pc \in RunPcs /\ pc' \in {"for", "top"}) => last_run' = last_run
     /\ \A l \in Labels : last_run[l] # None => last_run'[l] # None]_vars
C29_Witness ==
  /\ pc = "for"
  /\ i = 2
  /\ fires["07:00"][0] = 1
  /\ fires["07:00"][1] = 0
  /\ last_run["07:00"] = 1
  /\ last_run["13:30"] = None

=============================================================================
